---- MODULE Spec2Model ----
(***************************************************************************)
(* J.A.R.V.I.S fund-analysis service: question classification, the three   *)
(* processing tiers (document search, metadata query, hybrid analysis) and *)
(* the request each tier sends to the Responses API.                       *)
(*                                                                         *)
(* Questions, cached CSV text and instructions are TLA+ strings; Len,      *)
(* SubSeq and \o act on them character by character, so substring          *)
(* containment and lower-casing are computed, not assumed.                 *)
(***************************************************************************)
EXTENDS Naturals, Sequences, FiniteSets, TLC

VARIABLES
    csv_data,            \* self.csv_data: text of Returns/Returns.csv
    metadata_csv_data,   \* self.metadata_csv_data: text of the metadata CSV
    pc,                  \* position of the request being served
    question,            \* the question of the request being served
    question_type,       \* result of classify_question for that request
    call,                \* arguments of client.responses.create, or NoCall
    response,            \* what client.responses.create returned, or NoResponse
    extracted,           \* what extract_response_content returned or raised
    configured,          \* ASSISTANT_ID / VECTOR_STORE_ID are set
    creates,             \* client.responses.create calls made for this request
    reply,               \* the HTTP response of /api/ask, or NoReply
    serving,             \* whose POST is being served: Sender(s), ApiClient, NoOne
    message,             \* UserInput: the text in the textarea
    messages,            \* ChatWindow: the messages shown
    isLoading,           \* ChatWindow: a question is being processed
    error,               \* ChatWindow: the error banner text, or NoError
    processingStage,     \* ChatWindow: 'searching' | 'complete'
    now,                 \* Date.now()
    sends,               \* the running calls of handleSendMessage
    nsends,              \* how many calls of handleSendMessage went past the guard
    reqs,                \* the requests in progress when several run at once
    fetched,             \* how a fetch of the API client ended
    askResult,           \* what askQuestion made of it, or NoResult
    healthResult         \* what checkHealth made of it, or NoResult

coreVars == <<csv_data, metadata_csv_data, pc, question, question_type, call>>
extractVars == <<response, extracted>>
endpointVars == <<configured, creates, reply, serving>>
chatVars == <<message, messages, isLoading, error, processingStage, now, sends, nsends>>
apiVars == <<fetched, askResult, healthResult>>
vars == <<coreVars, extractVars, endpointVars, chatVars, reqs, apiVars>>

(***************************************************************************)
(* Bounds of the model.                                                    *)
(***************************************************************************)
MaxFrags == 2      \* a generated question is at most this many fragments
MaxItems == 2      \* a response has at most this many output items

(***************************************************************************)
(* Strings.                                                                *)
(***************************************************************************)
\* Python str.lower() on one character (ASCII letters).
LowerChar(c) ==
    CASE c = "A" -> "a" [] c = "B" -> "b" [] c = "C" -> "c" [] c = "D" -> "d"
      [] c = "E" -> "e" [] c = "F" -> "f" [] c = "G" -> "g" [] c = "H" -> "h"
      [] c = "I" -> "i" [] c = "J" -> "j" [] c = "K" -> "k" [] c = "L" -> "l"
      [] c = "M" -> "m" [] c = "N" -> "n" [] c = "O" -> "o" [] c = "P" -> "p"
      [] c = "Q" -> "q" [] c = "R" -> "r" [] c = "S" -> "s" [] c = "T" -> "t"
      [] c = "U" -> "u" [] c = "V" -> "v" [] c = "W" -> "w" [] c = "X" -> "x"
      [] c = "Y" -> "y" [] c = "Z" -> "z" [] OTHER -> c

\* The inverse mapping, used only to build case variants of a question.
UpperChar(c) ==
    CASE c = "a" -> "A" [] c = "b" -> "B" [] c = "c" -> "C" [] c = "d" -> "D"
      [] c = "e" -> "E" [] c = "f" -> "F" [] c = "g" -> "G" [] c = "h" -> "H"
      [] c = "i" -> "I" [] c = "j" -> "J" [] c = "k" -> "K" [] c = "l" -> "L"
      [] c = "m" -> "M" [] c = "n" -> "N" [] c = "o" -> "O" [] c = "p" -> "P"
      [] c = "q" -> "Q" [] c = "r" -> "R" [] c = "s" -> "S" [] c = "t" -> "T"
      [] c = "u" -> "U" [] c = "v" -> "V" [] c = "w" -> "W" [] c = "x" -> "X"
      [] c = "y" -> "Y" [] c = "z" -> "Z" [] OTHER -> c

RECURSIVE Lower(_)
\* question.lower()
Lower(s) ==
    IF Len(s) = 0 THEN ""
    ELSE LowerChar(SubSeq(s, 1, 1)) \o Lower(SubSeq(s, 2, Len(s)))

RECURSIVE Upper(_)
Upper(s) ==
    IF Len(s) = 0 THEN ""
    ELSE UpperChar(SubSeq(s, 1, 1)) \o Upper(SubSeq(s, 2, Len(s)))

\* s with the case of its k-th character flipped.
ToggleAt(s, k) ==
    LET c == SubSeq(s, k, k)
        d == IF LowerChar(c) # c THEN LowerChar(c) ELSE UpperChar(c)
    IN  SubSeq(s, 1, k - 1) \o d \o SubSeq(s, k + 1, Len(s))

\* A variant that matches a keyword only as a word of its own.
Contains_whole_word(k, s) ==
    \E i \in 1..(Len(s) + 1) :
        /\ i + Len(k) - 1 <= Len(s)
        /\ SubSeq(s, i, i + Len(k) - 1) = k
        /\ i = 1 \/ SubSeq(s, i - 1, i - 1) = " "
        /\ i + Len(k) - 1 = Len(s) \/ SubSeq(s, i + Len(k), i + Len(k)) = " "

\* Python's `k in s` on strings: k occurs in s as a contiguous substring.
Contains(k, s) ==
    \E i \in 1..(Len(s) + 1) :
        /\ i + Len(k) - 1 <= Len(s)
        /\ SubSeq(s, i, i + Len(k) - 1) = k

\* any(keyword in s for keyword in keywords)
AnyKeywordIn(keywords, s) ==
    \E i \in 1..Len(keywords) : Contains(keywords[i], s)

(***************************************************************************)
(* Question classification.                                                *)
(***************************************************************************)
metadata_keywords ==
    << "list", "show", "which", "what funds", "available", "funds in",
       "geography", "asset type", "instrument type", "strategy", "sub-category" >>

calculation_keywords ==
    << "calculate", "compute", "max drawdown", "sharpe ratio",
       "volatility", "vol", "annualized", "correlation", "beta", "alpha" >>

Categories ==
    {"DOCUMENT_SEARCH", "METADATA_QUERY", "CALCULATION_REQUIRED", "COMPARISON_REQUIRED"}

\* Variants of classify_question, each with one slip in it.
classify_question_metadata_first(q) ==
    IF AnyKeywordIn(metadata_keywords, Lower(q)) THEN "METADATA_QUERY"
    ELSE IF AnyKeywordIn(calculation_keywords, Lower(q)) THEN "CALCULATION_REQUIRED"
    ELSE IF Contains("compare", Lower(q)) THEN "COMPARISON_REQUIRED"
    ELSE "DOCUMENT_SEARCH"

classify_question_compare_first(q) ==
    IF Contains("compare", Lower(q)) THEN "COMPARISON_REQUIRED"
    ELSE IF AnyKeywordIn(calculation_keywords, Lower(q)) THEN "CALCULATION_REQUIRED"
    ELSE IF AnyKeywordIn(metadata_keywords, Lower(q)) THEN "METADATA_QUERY"
    ELSE "DOCUMENT_SEARCH"

classify_question_no_compare(q) ==
    IF AnyKeywordIn(calculation_keywords, Lower(q)) THEN "CALCULATION_REQUIRED"
    ELSE IF AnyKeywordIn(metadata_keywords, Lower(q)) THEN "METADATA_QUERY"
    ELSE "DOCUMENT_SEARCH"

classify_question_metadata_default(q) ==
    IF AnyKeywordIn(calculation_keywords, Lower(q)) THEN "CALCULATION_REQUIRED"
    ELSE IF Contains("compare", Lower(q)) THEN "COMPARISON_REQUIRED"
    ELSE "METADATA_QUERY"

classify_question_no_else(q) ==
    IF AnyKeywordIn(calculation_keywords, Lower(q)) THEN "CALCULATION_REQUIRED"
    ELSE IF AnyKeywordIn(metadata_keywords, Lower(q)) THEN "METADATA_QUERY"
    ELSE IF Contains("compare", Lower(q)) THEN "COMPARISON_REQUIRED"
    ELSE "None"

classify_question_case_sensitive(q) ==
    IF AnyKeywordIn(calculation_keywords, q) THEN "CALCULATION_REQUIRED"
    ELSE IF AnyKeywordIn(metadata_keywords, q) THEN "METADATA_QUERY"
    ELSE IF Contains("compare", q) THEN "COMPARISON_REQUIRED"
    ELSE "DOCUMENT_SEARCH"

classify_question(q) ==
    IF AnyKeywordIn(calculation_keywords, Lower(q)) THEN "CALCULATION_REQUIRED"
    ELSE IF AnyKeywordIn(metadata_keywords, Lower(q)) THEN "METADATA_QUERY"
    ELSE IF Contains("compare", Lower(q)) THEN "COMPARISON_REQUIRED"
    ELSE "DOCUMENT_SEARCH"

(***************************************************************************)
(* Inputs: the questions a caller may send and the CSV files on disk.      *)
(***************************************************************************)
Fragments ==
    { "list", "LIST", "Sharpe Ratio", "vol", "Compare", "compare", "strategy",
      " ", "fund", "e", "com", "pare", "revolve", "stylist" }

RECURSIVE FragQuestions(_)
\* Every concatenation of at most n fragments.
FragQuestions(n) ==
    IF n = 0 THEN {""}
    ELSE LET shorter == FragQuestions(n - 1)
         IN  shorter \cup { s \o f : s \in shorter, f \in Fragments }

ExampleQuestions ==
    { "What is the investment strategy of the Point72 fund?",
      "What is Point72's strategy?",
      "Calculate the Sharpe ratio for Point72 fund",
      "List all hedge funds",
      "compare the volatility",
      "Tell me about Point72" }

Questions == FragQuestions(MaxFrags) \cup ExampleQuestions

CsvTexts == { "", "Date,Point72\n2024-01,0.012" }
MetadataTexts == { "", "Fund,Geography\nPoint72,US" }

vector_store_id == "vs_fund_documents"

(***************************************************************************)
(* The three processing tiers: instructions, tools and max_tool_calls.     *)
(***************************************************************************)
FileSearchTool == [type |-> "file_search", vector_store_ids |-> <<vector_store_id>>]
CodeInterpreterTool == [type |-> "code_interpreter", container |-> [type |-> "auto"]]

\* Tier 1: search_documents_only
get_document_search_instructions ==
    "You are J.A.R.V.I.S, an AI assistant that answers questions about "
    \o "investment funds from the fund documents."
document_search_tools == <<FileSearchTool>>
document_search_max_tool_calls == 5

\* Tier 2: query_metadata
\* A variant that interpolates the returns CSV where the metadata CSV belongs.
metadata_instructions_returns_data(md, q) ==
    "\n    You are J.A.R.V.I.S, an AI assistant for fund metadata analysis.\n"
    \o "    ## AVAILABLE DATA:\n"
    \o "    " \o csv_data \o "\n"
    \o "    ## USER QUESTION: \n"
    \o "    " \o q \o "\n"
metadata_instructions(md, q) ==
    "\n    You are J.A.R.V.I.S, an AI assistant for fund metadata analysis.\n"
    \o "    \n"
    \o "    ## AVAILABLE DATA:\n"
    \o "    **Fund Metadata CSV Data:**\n"
    \o "    " \o md \o "\n"
    \o "    \n"
    \o "    ## USER QUESTION: \n"
    \o "    " \o q \o "\n"
    \o "    \n"
    \o "    ## TASK:\n"
    \o "    Analyze the fund metadata CSV data to answer the user's question about funds.\n"
    \o "    "
metadata_tools_with_file_search == <<FileSearchTool, CodeInterpreterTool>>
metadata_tools == <<CodeInterpreterTool>>
metadata_max_tool_calls == 5

\* Tier 3: hybrid_analysis
enhanced_instructions(csv) ==
    "\n    You are J.A.R.V.I.S, Kristal.AI's specialized AI assistant for fund analysis.\n"
    \o "    \n"
    \o "    ## AVAILABLE DATA:\n"
    \o "    **Returns Data**: CSV with monthly returns for all funds\n"
    \o "    " \o csv \o "\n"
    \o "    \n"
    \o "    ## PROCESSING APPROACH:\n"
    \o "    1. Load and analyze the returns data from the CSV data provided\n"
    \o "    2. Calculate the requested financial metrics accurately using the actual data\n"
    \o "    3. Provide exact formulas and methodology used for calculations\n"
    \o "    4. Create visualizations for complex metrics (charts, graphs, plots)\n"
    \o "    "
hybrid_tools == <<FileSearchTool, CodeInterpreterTool>>
hybrid_max_tool_calls_as_single == document_search_max_tool_calls
hybrid_max_tool_calls == 10

\* The arguments of client.responses.create(...)
CreateCall(instr, tools, max) ==
    [model |-> "gpt-4o", input |-> question, instructions |-> instr,
     tools |-> tools, max_tool_calls |-> max]

(***************************************************************************)
(* Response content extraction.                                            *)
(*                                                                         *)
(* The response is duck-typed: an attribute may be missing (hasattr is     *)
(* False), be None, or hold a value.  Every optional attribute is a record *)
(* with a tag saying which.                                                *)
(***************************************************************************)
AbsentList == [tag |-> "absent", items |-> <<>>]   \* no such attribute
NoneList == [tag |-> "none", items |-> <<>>]       \* attribute is None
ListOf(xs) == [tag |-> "list", items |-> xs]

\* One element of item.content.
TextPart(t) == [text |-> [tag |-> "str", value |-> t]]
TextlessPart == [text |-> [tag |-> "absent", value |-> ""]]   \* e.g. a refusal
NoneTextPart == [text |-> [tag |-> "none", value |-> ""]]

\* One element of item.code_interpreter_outputs.
ImageOutput(d) == [image |-> "obj", data |-> [tag |-> "str", value |-> d]]
LogsOutput == [image |-> "absent", data |-> [tag |-> "absent", value |-> ""]]
NoneImageOutput == [image |-> "none", data |-> [tag |-> "absent", value |-> ""]]
DatalessImageOutput == [image |-> "obj", data |-> [tag |-> "absent", value |-> ""]]
NoneDataImageOutput == [image |-> "obj", data |-> [tag |-> "none", value |-> ""]]

Item(c, o) == [content |-> c, code_interpreter_outputs |-> o]

\* images.append(None) leaves this in the list.
NoneValue == "<None>"

NoResponseGenerated == "No response generated"
Raised == [status |-> "raised", content |-> "", images |-> <<>>]
NotExtracted == [status |-> "none", content |-> "", images |-> <<>>]
Returned(c, imgs) == [status |-> "ok", content |-> c, images |-> imgs]

\* The first statement of the loop body: content += item.content[0].text
\* "raise" when the attribute access or the += fails.
ItemTextStep(item) ==
    IF item.content.tag = "list" /\ Len(item.content.items) > 0
    THEN LET t == item.content.items[1].text
         IN  IF t.tag = "str" THEN [raise |-> FALSE, text |-> t.value]
             ELSE [raise |-> TRUE, text |-> ""]
    ELSE [raise |-> FALSE, text |-> ""]

RECURSIVE OutputImages(_)
\* The inner loop over item.code_interpreter_outputs (a list).
OutputImages(outs) ==
    IF Len(outs) = 0 THEN <<>>
    ELSE LET o == Head(outs)
             here == IF o.image = "obj" /\ o.data.tag # "absent"
                     THEN IF o.data.tag = "str" THEN <<o.data.value>> ELSE <<NoneValue>>
                     ELSE <<>>
         IN  here \o OutputImages(Tail(outs))

\* The second statement of the loop body.
ItemImagesStep(item) ==
    IF item.code_interpreter_outputs.tag = "absent" THEN [raise |-> FALSE, images |-> <<>>]
    ELSE IF item.code_interpreter_outputs.tag = "none" THEN [raise |-> TRUE, images |-> <<>>]
    ELSE [raise |-> FALSE, images |-> OutputImages(item.code_interpreter_outputs.items)]

RECURSIVE ExtractLoop(_, _, _)
\* for item in response.output, with the accumulators content and images.
ExtractLoop(items, content, images) ==
    IF Len(items) = 0 THEN Returned(content, images)
    ELSE LET t == ItemTextStep(Head(items))
             i == ItemImagesStep(Head(items))
         IN  IF t.raise \/ i.raise THEN Raised
             ELSE ExtractLoop(Tail(items), content \o t.text, images \o i.images)

extract_response_content(resp) ==
    LET r == IF resp.output.tag = "list" /\ Len(resp.output.items) > 0
             THEN ExtractLoop(resp.output.items, "", <<>>)
             ELSE Returned("", <<>>)
    IN  IF r.status = "ok"
        THEN Returned(IF r.content # "" THEN r.content ELSE NoResponseGenerated, r.images)
        ELSE r

\* The output items the external model may return.
ItemShapes ==
    { Item(AbsentList, AbsentList),                                 \* a tool call
      Item(ListOf(<<TextPart("X")>>), AbsentList),                   \* a message
      Item(ListOf(<<TextPart("A"), TextPart("B")>>), AbsentList),    \* two fragments
      Item(ListOf(<<>>), AbsentList),
      Item(NoneList, AbsentList),
      Item(ListOf(<<TextlessPart, TextPart("R")>>), AbsentList),     \* a refusal first
      Item(ListOf(<<NoneTextPart>>), AbsentList),
      Item(ListOf(<<TextPart("Y")>>), NoneList),                     \* outputs = None
      Item(AbsentList, ListOf(<<ImageOutput("img1")>>)),
      Item(AbsentList, ListOf(<<ImageOutput("img2"), LogsOutput, ImageOutput("img3")>>)),
      Item(ListOf(<<TextPart("Z")>>), ListOf(<<NoneImageOutput, DatalessImageOutput>>)),
      Item(AbsentList, ListOf(<<NoneDataImageOutput>>)) }

RECURSIVE ItemSeqs(_)
\* Every sequence of at most n output items.
ItemSeqs(n) ==
    IF n = 0 THEN {<<>>}
    ELSE LET shorter == ItemSeqs(n - 1)
         IN  shorter \cup { Append(xs, it) : xs \in shorter, it \in ItemShapes }

\* Three items, only the second with text "X", the third with one image.
ThreeItemExample ==
    << Item(AbsentList, AbsentList),
       Item(ListOf(<<TextPart("X")>>), AbsentList),
       Item(AbsentList, ListOf(<<ImageOutput("img1")>>)) >>

Responses ==
    { [output |-> ListOf(xs)] : xs \in ItemSeqs(MaxItems) \cup {ThreeItemExample} }
        \cup { [output |-> AbsentList], [output |-> NoneList] }

\* The responses the request flow is exercised with.
SampleResponses ==
    { [output |-> ListOf(ThreeItemExample)],
      [output |-> ListOf(<<>>)],
      [output |-> ListOf(<<Item(ListOf(<<TextPart("Y")>>), NoneList)>>)] }

NoResponse == [output |-> [tag |-> "pending", items |-> <<>>]]

(***************************************************************************)
(* The HTTP responses of POST /api/ask.                                    *)
(***************************************************************************)
NoReply == [status |-> 0, body |-> [none |-> TRUE]]
NoOne == [who |-> "none", id |-> 0]
ApiClient == [who |-> "api", id |-> 0]
Sender(s) == [who |-> "send", id |-> s.id]

StatusText(code) ==
    CASE code = 400 -> "400" [] code = 500 -> "500" [] code = 504 -> "504"
      [] OTHER -> "?"

\* A variant that answers an error with 200 and an answer body.
http_exception_handler_as_answer(status_code, detail) ==
    [status |-> 200, body |-> [answer |-> detail, images |-> ListOf(<<>>)]]

\* @app.exception_handler(HTTPException)
http_exception_handler(status_code, detail) ==
    [status |-> status_code,
     body |-> [error |-> detail, detail |-> "Status code: " \o StatusText(status_code)]]

AnswerReply(content, images) ==
    [status |-> 200, body |-> [answer |-> content, images |-> ListOf(images)]]

ValidationErrorReply == http_exception_handler(400, "Question cannot be empty")
ConfigurationErrorReply == http_exception_handler(500, "Assistant not configured")
UpstreamErrorReply == http_exception_handler(500, "Error processing question")
TimeoutErrorReply == http_exception_handler(504, "Request timeout")
UpstreamErrorReplies == {UpstreamErrorReply, TimeoutErrorReply}

\* What the endpoint answers once the tier has returned or raised.
ReplyFor(x) ==
    IF x.status = "ok" THEN AnswerReply(x.content, x.images) ELSE UpstreamErrorReply

(***************************************************************************)
(* The chat window: UserInput, ChatWindow.handleSendMessage, askQuestion.  *)
(***************************************************************************)
MaxSends == 2
ClockGaps == {0, 1}
StartTime == 1000
TypingDelay == 1500

Whitespace == {" ", "\t", "\n"}

RECURSIVE TrimStart(_)
TrimStart(s) ==
    IF Len(s) > 0 /\ SubSeq(s, 1, 1) \in Whitespace
    THEN TrimStart(SubSeq(s, 2, Len(s)))
    ELSE s

RECURSIVE TrimEnd(_)
TrimEnd(s) ==
    IF Len(s) > 0 /\ SubSeq(s, Len(s), Len(s)) \in Whitespace
    THEN TrimEnd(SubSeq(s, 1, Len(s) - 1))
    ELSE s

\* A variant that leaves the text as typed.
trim_as_typed(s) == s

\* String.prototype.trim()
trim(s) == TrimEnd(TrimStart(s))

ChatInputs == { "", "  ", " List all hedge funds ", "compare the volatility" }
ApiInputs == { "", " \n", "Tell me about Point72" }

NoError == "<null>"
NetworkErrorMessage == "Network error. Please check if the backend server is running."
ConnectErrorMessage ==
    "Unable to connect to the backend server. Please check if the backend is running."
FailedToGetAnswer == "Failed to get answer"

\* The Message objects; a field the code leaves out is "" or <<>> or FALSE.
UserMessage(id, content) ==
    [id |-> id, role |-> "user", content |-> content, isTyping |-> FALSE,
     processingStage |-> "", images |-> <<>>]
TypingMessage(id) ==
    [id |-> id, role |-> "assistant", content |-> "", isTyping |-> TRUE,
     processingStage |-> "searching", images |-> <<>>]
AssistantMessage(id, content, images) ==
    [id |-> id, role |-> "assistant", content |-> content, isTyping |-> FALSE,
     processingStage |-> "complete", images |-> images]

\* A variant whose filter keeps every message.
WithoutId_keeps_all(msgs, id) == msgs

\* prev.filter(msg => msg.id !== typingId)
RECURSIVE WithoutId(_, _)
WithoutId(msgs, id) ==
    IF msgs = <<>> THEN <<>>
    ELSE IF Head(msgs).id = id THEN WithoutId(Tail(msgs), id)
    ELSE <<Head(msgs)>> \o WithoutId(Tail(msgs), id)

Undefined == "<undefined>"
FetchFailedDetail == "Failed to fetch"
ParseFailedDetail == "Unexpected token"

ApiError(msg, status, detail) ==
    [ok |-> FALSE, message |-> msg, status |-> status, detail |-> detail]
AnswerResult(answer, images) == [ok |-> TRUE, answer |-> answer, images |-> images]

\* A response body is a record of its JSON fields; a body that is no JSON
\* object is [text |-> ...] (not JSON at all) or [json_null |-> TRUE].
IsJsonObject(body) == DOMAIN body \cap {"text", "json_null", "none"} = {}

ErrorField(body) == IF "error" \in DOMAIN body THEN body.error ELSE ""
DetailField(body) == IF "detail" \in DOMAIN body THEN body.detail ELSE Undefined
AnswerField(body) == IF "answer" \in DOMAIN body THEN body.answer ELSE Undefined
ImagesField(body) == IF "images" \in DOMAIN body THEN body.images ELSE AbsentList

\* response.ok
ResponseOk(status) == status >= 200 /\ status <= 299

\* A variant that hands on data.images as it is.
ImagesOrEmpty_as_given(l) == IF l.tag = "list" THEN l.items ELSE l

\* data.images || []
ImagesOrEmpty(l) == IF l.tag = "list" THEN l.items ELSE <<>>

\* What askQuestion returns or throws for the outcome of its fetch: a fetch
\* that rejected, or a response whose body may fail to parse.  Whatever is
\* thrown inside the try that is no ApiError becomes the status-0 ApiError.
askQuestion(s) ==
    IF s.pc = "failed" THEN ApiError(NetworkErrorMessage, 0, FetchFailedDetail)
    ELSE IF ~IsJsonObject(s.reply.body)
    THEN ApiError(NetworkErrorMessage, 0, ParseFailedDetail)
    ELSE IF ~ResponseOk(s.reply.status)
    THEN ApiError(IF ErrorField(s.reply.body) # "" THEN ErrorField(s.reply.body)
                  ELSE FailedToGetAnswer,
                  s.reply.status, DetailField(s.reply.body))
    ELSE AnswerResult(AnswerField(s.reply.body),
                      ImagesOrEmpty(ImagesField(s.reply.body)))

\* A variant in which UserInput is not told that a question is loading.
disabled_default == FALSE

\* <UserInput disabled={isLoading} />
disabled == isLoading

\* A variant that stops loading only at the end of the try block.
LoadingAfterSettle_try_only(ok) == ~ok

\* finally { setIsLoading(false) }
LoadingAfterSettle(ok) == FALSE

\* The catch block's choice of the banner text.
ErrorBanner(err) == IF err.status = 0 THEN ConnectErrorMessage ELSE err.message

ChatInit ==
    /\ message = ""
    /\ messages = <<>>
    /\ isLoading = FALSE
    /\ error = NoError
    /\ processingStage = "searching"
    /\ now = StartTime
    /\ sends = {}
    /\ nsends = 0

(***************************************************************************)
(* The API client (lib/api.ts) as functions of how a fetch ended.          *)
(***************************************************************************)
Bool(b) == [t |-> "bool", v |-> b]
Str(x) == [t |-> "str", v |-> IF x = "true" THEN TRUE ELSE FALSE]

HttpStatuses == {200, 201, 400, 500, 504}

AnswerBodies ==
    { [answer |-> "A"],
      [answer |-> "A", images |-> ListOf(<<>>)],
      [answer |-> "A", images |-> ListOf(<<"img1">>)],
      [answer |-> "A", images |-> ListOf(<<"img1", "img2">>)],
      [answer |-> "A", images |-> NoneList] }

ErrorBodies ==
    { [error |-> "E", detail |-> "D"],
      [error |-> "E"],
      [error |-> "", detail |-> "D"],
      [detail |-> "D"] }

HealthBodies ==
    { [status |-> st, files_configured |-> fc] :
          st \in {"healthy", "unhealthy"},
          fc \in {Bool(TRUE), Bool(FALSE), Str("true")} }
    \cup
    { [status |-> "healthy"],
      [files_configured |-> Bool(TRUE)],
      [status |-> "healthy", assistant_configured |-> Bool(TRUE),
       vector_store_configured |-> Bool(TRUE)] }

UnparsedBodies == { [text |-> "Internal Server Error"], [json_null |-> TRUE] }

Bodies == AnswerBodies \cup ErrorBodies \cup HealthBodies \cup UnparsedBodies

NetworkFailure == [failed |-> TRUE, status |-> 0, body |-> [none |-> TRUE]]
FetchOutcomes ==
    {NetworkFailure} \cup
    { [failed |-> FALSE, status |-> st, body |-> b] : st \in HttpStatuses, b \in Bodies }

NoResult == [none |-> TRUE]

\* The fetch outcome as askQuestion sees it.
AsSend(f) ==
    [pc |-> IF f.failed THEN "failed" ELSE "replied",
     reply |-> [status |-> f.status, body |-> f.body]]

\* data.files_configured === true
StrictlyTrue(body, f) == f \in DOMAIN body /\ body[f].t = "bool" /\ body[f].v

Threw == [threw |-> TRUE, value |-> FALSE]
Value(b) == [threw |-> FALSE, value |-> b]

\* The try block of checkHealth.
HealthTry(f) ==
    IF f.failed THEN Threw
    ELSE IF ~ResponseOk(f.status) THEN Value(FALSE)
    ELSE IF ~IsJsonObject(f.body) THEN Threw
    ELSE Value(/\ "status" \in DOMAIN f.body
               /\ f.body.status = "healthy"
               /\ StrictlyTrue(f.body, "files_configured"))

\* A variant without the catch.
checkHealth_no_catch(f) == HealthTry(f)

\* checkHealth: try { ... } catch { return false }
checkHealth(f) == IF HealthTry(f).threw THEN Value(FALSE) ELSE HealthTry(f)

ApiIdle ==
    /\ fetched = NetworkFailure
    /\ askResult = NoResult
    /\ healthResult = NoResult

NoCall == [model |-> "none"]
NoType == "NONE"

(***************************************************************************)
(* Several requests in progress at once.  Each has its own question,       *)
(* category and call; the cached texts are the only thing they share.      *)
(***************************************************************************)
MaxRequests == 2
RequestIds == 1..MaxRequests
ConcQuestions ==
    { "List all hedge funds", "compare the volatility", "Tell me about Point72" }

IdleRequest ==
    [pc |-> "idle", question |-> "", question_type |-> NoType, call |-> NoCall]
NoRequests == [i \in RequestIds |-> IdleRequest]

\* A variant that takes the question from the shared state.
TierCall_shared_question(t, q) ==
    CASE t = "DOCUMENT_SEARCH" ->
           CreateCall(get_document_search_instructions,
                      document_search_tools, document_search_max_tool_calls)
      [] t = "METADATA_QUERY" ->
           CreateCall(metadata_instructions(metadata_csv_data, question),
                      metadata_tools, metadata_max_tool_calls)
      [] OTHER ->
           CreateCall(enhanced_instructions(csv_data),
                      hybrid_tools, hybrid_max_tool_calls)

\* The call the tier for category t issues for question q.
TierCall(t, q) ==
    CASE t = "DOCUMENT_SEARCH" ->
           [CreateCall(get_document_search_instructions,
                       document_search_tools, document_search_max_tool_calls)
                EXCEPT !.input = q]
      [] t = "METADATA_QUERY" ->
           [CreateCall(metadata_instructions(metadata_csv_data, q),
                       metadata_tools, metadata_max_tool_calls)
                EXCEPT !.input = q]
      [] OTHER ->
           [CreateCall(enhanced_instructions(csv_data),
                       hybrid_tools, hybrid_max_tool_calls)
                EXCEPT !.input = q]

Init ==
    /\ csv_data \in CsvTexts
    /\ metadata_csv_data \in MetadataTexts
    /\ pc = "idle"
    /\ question = ""
    /\ question_type = NoType
    /\ call = NoCall
    /\ response = NoResponse
    /\ extracted = NotExtracted
    /\ configured = TRUE
    /\ creates = 0
    /\ reply = NoReply
    /\ serving = NoOne
    /\ ChatInit
    /\ reqs = NoRequests
    /\ ApiIdle

\* The service is asked a question.
AskQuestion(q) ==
    /\ pc = "idle"
    /\ pc' = "received"
    /\ question' = q
    /\ response' = NoResponse
    /\ extracted' = NotExtracted
    /\ creates' = 0
    /\ reply' = NoReply
    /\ UNCHANGED <<csv_data, metadata_csv_data, question_type, call, configured, serving, chatVars>>
    /\ UNCHANGED <<reqs, apiVars>>

\* The service classifies the question.
Classify ==
    /\ pc = "received"
    /\ question_type' = classify_question(question)
    /\ pc' = "classified"
    /\ UNCHANGED <<csv_data, metadata_csv_data, question, call, extractVars, endpointVars, chatVars>>
    /\ UNCHANGED <<reqs, apiVars>>

\* DOCUMENT_SEARCH: search_documents_only issues the Responses API call.
SearchDocumentsOnly ==
    /\ pc = "classified"
    /\ question_type = "DOCUMENT_SEARCH"
    /\ call' = CreateCall(get_document_search_instructions,
                          document_search_tools, document_search_max_tool_calls)
    /\ pc' = "invoked"
    /\ creates' = creates + 1
    /\ UNCHANGED <<csv_data, metadata_csv_data, question, question_type, extractVars>>
    /\ UNCHANGED <<configured, reply, serving, chatVars>>
    /\ UNCHANGED <<reqs, apiVars>>

\* METADATA_QUERY: query_metadata issues the Responses API call.
QueryMetadata ==
    /\ pc = "classified"
    /\ question_type = "METADATA_QUERY"
    /\ call' = CreateCall(metadata_instructions(metadata_csv_data, question),
                          metadata_tools, metadata_max_tool_calls)
    /\ pc' = "invoked"
    /\ creates' = creates + 1
    /\ UNCHANGED <<csv_data, metadata_csv_data, question, question_type, extractVars>>
    /\ UNCHANGED <<configured, reply, serving, chatVars>>
    /\ UNCHANGED <<reqs, apiVars>>

\* CALCULATION_REQUIRED and COMPARISON_REQUIRED: hybrid_analysis issues the call.
HybridAnalysis ==
    /\ pc = "classified"
    /\ question_type \in {"CALCULATION_REQUIRED", "COMPARISON_REQUIRED"}
    /\ call' = CreateCall(enhanced_instructions(csv_data),
                          hybrid_tools, hybrid_max_tool_calls)
    /\ pc' = "invoked"
    /\ creates' = creates + 1
    /\ UNCHANGED <<csv_data, metadata_csv_data, question, question_type, extractVars>>
    /\ UNCHANGED <<configured, reply, serving, chatVars>>
    /\ UNCHANGED <<reqs, apiVars>>

\* The call returns r; the tier returns extract_response_content(r) and the
\* request ends.
ReturnAnswer(r) ==
    /\ pc = "invoked"
    /\ response' = r
    /\ extracted' = extract_response_content(r)
    /\ reply' = ReplyFor(extract_response_content(r))
    /\ pc' = "idle"
    /\ question' = ""
    /\ question_type' = NoType
    /\ call' = NoCall
    /\ UNCHANGED <<csv_data, metadata_csv_data, configured, creates, serving, chatVars>>
    /\ UNCHANGED <<reqs, apiVars>>

\* A variant that goes back and invokes the external model again.
ModelFails_retry(e) ==
    /\ pc = "invoked"
    /\ pc' = "classified"
    /\ UNCHANGED <<csv_data, metadata_csv_data, question, question_type, call>>
    /\ UNCHANGED <<extractVars, endpointVars, chatVars>>
    /\ UNCHANGED <<reqs, apiVars>>

\* client.responses.create raises (network, quota, timeout): the request ends
\* with the error response e and nothing is extracted.
ModelFails(e) ==
    /\ pc = "invoked"
    /\ reply' = e
    /\ pc' = "idle"
    /\ question' = ""
    /\ question_type' = NoType
    /\ call' = NoCall
    /\ UNCHANGED <<csv_data, metadata_csv_data, extractVars, configured, creates, serving>>
    /\ UNCHANGED chatVars
    /\ UNCHANGED <<reqs, apiVars>>

Next ==
    \/ \E q \in Questions : AskQuestion(q)
    \/ Classify
    \/ SearchDocumentsOnly
    \/ QueryMetadata
    \/ HybridAnalysis
    \/ \E r \in SampleResponses : ReturnAnswer(r)
    \/ \E e \in UpstreamErrorReplies : ModelFails(e)

Spec == Init /\ [][Next]_vars

(***************************************************************************)
(* The whole service: the chat window and a direct API client post to the  *)
(* endpoint, which runs one request through the tiers.                     *)
(***************************************************************************)
ServiceResponses ==
    { [output |-> ListOf(ThreeItemExample)],
      [output |-> ListOf(<<Item(ListOf(<<NoneTextPart>>), AbsentList)>>)] }

InitService ==
    /\ csv_data = "Date,Point72\n2024-01,0.012"
    /\ metadata_csv_data = "Fund,Geography\nPoint72,US"
    /\ pc = "idle"
    /\ question = ""
    /\ question_type = NoType
    /\ call = NoCall
    /\ response = NoResponse
    /\ extracted = NotExtracted
    /\ configured \in BOOLEAN
    /\ creates = 0
    /\ reply = NoReply
    /\ serving = NoOne
    /\ ChatInit
    /\ reqs = NoRequests
    /\ ApiIdle

\* UserInput.handleSubmit on the text c (a disabled textarea takes no text),
\* and the ChatWindow.handleSendMessage it calls, up to the first await.
Submit(c) ==
    /\ IF trim(c) # "" /\ ~disabled /\ trim(trim(c)) # ""
       THEN /\ nsends < MaxSends
            /\ \E d \in ClockGaps :
                 /\ now' = now + d
                 /\ messages' = messages \o <<UserMessage(now + d, trim(c)),
                                              TypingMessage(now + d + 1)>>
                 /\ sends' = sends \cup
                      {[id |-> nsends + 1, pc |-> "timer", content |-> trim(c),
                        typingId |-> now + d + 1, posts |-> 0, reply |-> NoReply]}
            /\ nsends' = nsends + 1
            /\ isLoading' = TRUE
            /\ error' = NoError
            /\ processingStage' = "searching"
            /\ message' = ""
       ELSE /\ message' = (IF disabled THEN message ELSE c)
            /\ UNCHANGED <<messages, isLoading, error, processingStage, now, sends,
                           nsends>>
    /\ UNCHANGED <<coreVars, extractVars, endpointVars>>
    /\ UNCHANGED <<reqs, apiVars>>

\* The 1500 ms timer fires and askQuestion issues its fetch.
PostQuestion(s) ==
    /\ s \in sends
    /\ s.pc = "timer"
    /\ sends' = (sends \ {s}) \cup {[s EXCEPT !.pc = "sent", !.posts = s.posts + 1]}
    /\ now' = now + TypingDelay
    /\ UNCHANGED <<message, messages, isLoading, error, processingStage, nsends>>
    /\ UNCHANGED <<coreVars, extractVars, endpointVars>>
    /\ UNCHANGED <<reqs, apiVars>>

\* The fetch fails before the backend takes the request.
NetworkFails(s) ==
    /\ s \in sends
    /\ s.pc = "sent"
    /\ sends' = (sends \ {s}) \cup {[s EXCEPT !.pc = "failed"]}
    /\ UNCHANGED <<message, messages, isLoading, error, processingStage, now, nsends>>
    /\ UNCHANGED <<coreVars, extractVars, endpointVars>>
    /\ UNCHANGED <<reqs, apiVars>>

\* The endpoint takes a posted question q from caller who: it answers an
\* invalid question and a missing configuration at once, and hands
\* everything else to the classifier.
Receive(who, q) ==
    /\ pc = "idle"
    /\ serving = NoOne
    /\ reply = NoReply
    /\ serving' = who
    /\ creates' = 0
    /\ response' = NoResponse
    /\ extracted' = NotExtracted
    /\ IF trim(q) = ""
       THEN /\ reply' = ValidationErrorReply
            /\ UNCHANGED <<pc, question>>
       ELSE IF ~configured
       THEN /\ reply' = ConfigurationErrorReply
            /\ UNCHANGED <<pc, question>>
       ELSE /\ pc' = "received"
            /\ question' = q
            /\ UNCHANGED reply
    /\ UNCHANGED <<csv_data, metadata_csv_data, question_type, call, configured>>
    /\ UNCHANGED <<reqs, apiVars>>

ReceivePost(s) ==
    /\ s \in sends
    /\ s.pc = "sent"
    /\ Receive(Sender(s), s.content)
    /\ sends' = (sends \ {s}) \cup {[s EXCEPT !.pc = "serving"]}
    /\ UNCHANGED <<message, messages, isLoading, error, processingStage, now, nsends>>

ApiPost(q) ==
    /\ Receive(ApiClient, q)
    /\ UNCHANGED chatVars

\* The HTTP response reaches the fetch of the chat window.
Deliver(s) ==
    /\ s \in sends
    /\ s.pc = "serving"
    /\ serving = Sender(s)
    /\ reply # NoReply
    /\ sends' = (sends \ {s}) \cup {[s EXCEPT !.pc = "replied", !.reply = reply]}
    /\ reply' = NoReply
    /\ serving' = NoOne
    /\ UNCHANGED <<message, messages, isLoading, error, processingStage, now, nsends>>
    /\ UNCHANGED <<coreVars, extractVars, configured, creates>>
    /\ UNCHANGED <<reqs, apiVars>>

ApiDeliver ==
    /\ serving = ApiClient
    /\ reply # NoReply
    /\ reply' = NoReply
    /\ serving' = NoOne
    /\ UNCHANGED <<coreVars, extractVars, configured, creates, chatVars>>
    /\ UNCHANGED <<reqs, apiVars>>

\* handleSendMessage after `await askQuestion(content)`: the try branch or
\* the catch branch, and the finally block.
HandleOutcome(s) ==
    /\ s \in sends
    /\ s.pc \in {"replied", "failed"}
    /\ \E d \in ClockGaps :
         /\ now' = now + d
         /\ IF askQuestion(s).ok
            THEN /\ messages' = WithoutId(messages, s.typingId) \o
                       <<AssistantMessage(now + d + 2, askQuestion(s).answer,
                                          askQuestion(s).images)>>
                 /\ UNCHANGED error
            ELSE /\ messages' = WithoutId(messages, s.typingId)
                 /\ error' = ErrorBanner(askQuestion(s))
    /\ isLoading' = LoadingAfterSettle(askQuestion(s).ok)
    /\ processingStage' = "searching"
    /\ sends' = sends \ {s}
    /\ UNCHANGED <<message, nsends>>
    /\ UNCHANGED <<coreVars, extractVars, endpointVars>>
    /\ UNCHANGED <<reqs, apiVars>>

\* A variant of handleRetry that sends the failed question again.
Retry_resends ==
    /\ error # NoError
    /\ error' = NoError
    /\ isLoading' = TRUE
    /\ messages' = messages \o <<TypingMessage(now + 1)>>
    /\ sends' = sends \cup
         {[id |-> nsends, pc |-> "timer", content |-> messages[Len(messages)].content,
           typingId |-> now + 1, posts |-> 0, reply |-> NoReply]}
    /\ UNCHANGED <<message, processingStage, now, nsends>>
    /\ UNCHANGED <<coreVars, extractVars, endpointVars>>
    /\ UNCHANGED <<reqs, apiVars>>

\* handleRetry
Retry ==
    /\ error # NoError
    /\ error' = NoError
    /\ UNCHANGED <<message, messages, isLoading, processingStage, now, sends, nsends>>
    /\ UNCHANGED <<coreVars, extractVars, endpointVars>>
    /\ UNCHANGED <<reqs, apiVars>>

NextService ==
    \/ \E c \in ChatInputs : Submit(c)
    \/ \E s \in sends : PostQuestion(s)
    \/ \E s \in sends : NetworkFails(s)
    \/ \E s \in sends : ReceivePost(s)
    \/ \E q \in ApiInputs : ApiPost(q)
    \/ Classify
    \/ SearchDocumentsOnly
    \/ QueryMetadata
    \/ HybridAnalysis
    \/ \E r \in ServiceResponses : ReturnAnswer(r)
    \/ \E e \in UpstreamErrorReplies : ModelFails(e)
    \/ \E s \in sends : Deliver(s)
    \/ ApiDeliver
    \/ \E s \in sends : HandleOutcome(s)
    \/ Retry

SpecService == InitService /\ [][NextService]_vars

\* The continuation of handleSendMessage runs once its await has settled.
SpecServiceFair ==
    SpecService /\ WF_vars(\E s \in sends : HandleOutcome(s))

(***************************************************************************)
(* Concurrent requests against the cached texts.                           *)
(***************************************************************************)
InitConc ==
    /\ csv_data \in CsvTexts
    /\ metadata_csv_data \in MetadataTexts
    /\ pc = "idle"
    /\ question = ""
    /\ question_type = NoType
    /\ call = NoCall
    /\ response = NoResponse
    /\ extracted = NotExtracted
    /\ configured = TRUE
    /\ creates = 0
    /\ reply = NoReply
    /\ serving = NoOne
    /\ ChatInit
    /\ reqs = NoRequests
    /\ ApiIdle

ConcAsk(i, q) ==
    /\ reqs[i].pc = "idle"
    /\ reqs' = [reqs EXCEPT ![i] = [IdleRequest EXCEPT !.pc = "received", !.question = q]]
    /\ UNCHANGED <<coreVars, extractVars, endpointVars, chatVars, apiVars>>

ConcClassify(i) ==
    /\ reqs[i].pc = "received"
    /\ reqs' = [reqs EXCEPT ![i].pc = "classified",
                            ![i].question_type = classify_question(reqs[i].question)]
    /\ UNCHANGED <<coreVars, extractVars, endpointVars, chatVars, apiVars>>

ConcInvoke(i) ==
    /\ reqs[i].pc = "classified"
    /\ reqs' = [reqs EXCEPT ![i].pc = "invoked",
                            ![i].call = TierCall(reqs[i].question_type,
                                                 reqs[i].question)]
    /\ UNCHANGED <<coreVars, extractVars, endpointVars, chatVars, apiVars>>

ConcReturn(i) ==
    /\ reqs[i].pc = "invoked"
    /\ reqs' = [reqs EXCEPT ![i] = IdleRequest]
    /\ UNCHANGED <<coreVars, extractVars, endpointVars, chatVars, apiVars>>

NextConc ==
    \/ \E i \in RequestIds, q \in ConcQuestions : ConcAsk(i, q)
    \/ \E i \in RequestIds : ConcClassify(i)
    \/ \E i \in RequestIds : ConcInvoke(i)
    \/ \E i \in RequestIds : ConcReturn(i)

SpecConc == InitConc /\ [][NextConc]_vars

(***************************************************************************)
(* askQuestion and checkHealth on their own, over every fetch outcome.     *)
(***************************************************************************)
InitApi ==
    /\ csv_data = "Date,Point72\n2024-01,0.012"
    /\ metadata_csv_data = "Fund,Geography\nPoint72,US"
    /\ pc = "idle"
    /\ question = ""
    /\ question_type = NoType
    /\ call = NoCall
    /\ response = NoResponse
    /\ extracted = NotExtracted
    /\ configured = TRUE
    /\ creates = 0
    /\ reply = NoReply
    /\ serving = NoOne
    /\ ChatInit
    /\ reqs = NoRequests
    /\ fetched \in FetchOutcomes
    /\ askResult = NoResult
    /\ healthResult = NoResult

CallAskQuestion ==
    /\ askResult = NoResult
    /\ askResult' = askQuestion(AsSend(fetched))
    /\ UNCHANGED <<coreVars, extractVars, endpointVars, chatVars, reqs>>
    /\ UNCHANGED <<fetched, healthResult>>

CallCheckHealth ==
    /\ healthResult = NoResult
    /\ healthResult' = checkHealth(fetched)
    /\ UNCHANGED <<coreVars, extractVars, endpointVars, chatVars, reqs>>
    /\ UNCHANGED <<fetched, askResult>>

NextApi == CallAskQuestion \/ CallCheckHealth

SpecApi == InitApi /\ [][NextApi]_vars

(***************************************************************************)
(* extract_response_content on its own, over every response shape.         *)
(***************************************************************************)
InitExtract ==
    /\ csv_data = ""
    /\ metadata_csv_data = ""
    /\ pc = "idle"
    /\ question = ""
    /\ question_type = NoType
    /\ call = NoCall
    /\ response \in Responses
    /\ extracted = NotExtracted
    /\ configured = TRUE
    /\ creates = 0
    /\ reply = NoReply
    /\ serving = NoOne
    /\ ChatInit
    /\ reqs = NoRequests
    /\ ApiIdle

ExtractResponseContent ==
    /\ response # NoResponse
    /\ extracted = NotExtracted
    /\ extracted' = extract_response_content(response)
    /\ UNCHANGED <<coreVars, response, endpointVars, chatVars>>
    /\ UNCHANGED <<reqs, apiVars>>

NextExtract == ExtractResponseContent

SpecExtract == InitExtract /\ [][NextExtract]_vars

(***************************************************************************)
(* Properties.                                                             *)
(***************************************************************************)
Classified == pc \in {"classified", "invoked"}
HasCalculationKeyword == AnyKeywordIn(calculation_keywords, Lower(question))
HasMetadataKeyword == AnyKeywordIn(metadata_keywords, Lower(question))
HasCompare == Contains("compare", Lower(question))

\* C1: a question containing a calculation keyword is CALCULATION_REQUIRED,
\* whether or not it also contains metadata keywords.
C1_CalculationKeywordWins ==
    (Classified /\ HasCalculationKeyword) => question_type = "CALCULATION_REQUIRED"

C1_Witness ==
    /\ pc = "classified"
    /\ HasCalculationKeyword
    /\ HasMetadataKeyword
    /\ question_type = "CALCULATION_REQUIRED"

\* C2: "compare" is tested after both keyword sets: with a calculation keyword
\* the question is CALCULATION_REQUIRED, with a metadata keyword and no
\* calculation keyword it is METADATA_QUERY, never COMPARISON_REQUIRED.
C2_CompareCheckedLast ==
    (Classified /\ HasCompare) =>
        /\ HasCalculationKeyword => question_type = "CALCULATION_REQUIRED"
        /\ (HasMetadataKeyword /\ ~HasCalculationKeyword) => question_type = "METADATA_QUERY"
        /\ (HasCalculationKeyword \/ HasMetadataKeyword) => question_type # "COMPARISON_REQUIRED"

C2_Witness ==
    /\ pc = "classified"
    /\ question = "compare the volatility"
    /\ question_type = "CALCULATION_REQUIRED"

\* C3: a question containing "compare" and no calculation or metadata keyword
\* is COMPARISON_REQUIRED.
C3_CompareAlone ==
    (Classified /\ HasCompare /\ ~HasCalculationKeyword /\ ~HasMetadataKeyword)
        => question_type = "COMPARISON_REQUIRED"

C3_Witness ==
    /\ pc = "classified"
    /\ HasCompare /\ ~HasCalculationKeyword /\ ~HasMetadataKeyword
    /\ question_type = "COMPARISON_REQUIRED"

\* C4: a question with no calculation keyword, no metadata keyword and no
\* "compare" is DOCUMENT_SEARCH.
C4_DefaultDocumentSearch ==
    (Classified /\ ~HasCompare /\ ~HasCalculationKeyword /\ ~HasMetadataKeyword)
        => question_type = "DOCUMENT_SEARCH"

C4_Witness ==
    /\ pc = "classified"
    /\ question = "Tell me about Point72"
    /\ question_type = "DOCUMENT_SEARCH"

\* C5: classification is total: every question, the empty one included, is
\* classified as exactly one of the four categories.
C5_ClassifyTotal ==
    Classified => question_type \in Categories

C5_Witness ==
    /\ pc = "classified"
    /\ question = ""
    /\ question_type \in Categories

\* C6: classification is case-insensitive: the question in upper case, in
\* lower case, and with the case of any one character flipped, classifies as
\* the question itself does.
C6_CaseInsensitive ==
    pc = "classified" =>
        /\ classify_question(Upper(question)) = question_type
        /\ classify_question(Lower(question)) = question_type
        /\ \A k \in 1..Len(question) :
               classify_question(ToggleAt(question, k)) = question_type

C6_Witness ==
    /\ pc = "classified"
    /\ question = "LIST"
    /\ Lower(question) # question
    /\ question_type = "METADATA_QUERY"

StrategyExamples ==
    { "What is the investment strategy of the Point72 fund?",
      "What is Point72's strategy?" }

\* C7: the documented strategy questions are classified DOCUMENT_SEARCH and
\* sent down the document-search path with the file_search tool only.
C7_StrategyExamplesAreDocumentSearch ==
    (question \in StrategyExamples) =>
        /\ Classified => question_type = "DOCUMENT_SEARCH"
        /\ pc = "invoked" => call.tools = <<FileSearchTool>>

\* C8: the category fixes the tool manifest: DOCUMENT_SEARCH has file_search
\* alone, METADATA_QUERY has code_interpreter alone, CALCULATION_REQUIRED and
\* COMPARISON_REQUIRED have both, and no other category has both.
C8_ToolManifestByCategory ==
    pc = "invoked" =>
        /\ question_type = "DOCUMENT_SEARCH" => call.tools = <<FileSearchTool>>
        /\ question_type = "METADATA_QUERY" => call.tools = <<CodeInterpreterTool>>
        /\ question_type \in {"CALCULATION_REQUIRED", "COMPARISON_REQUIRED"}
               => call.tools = <<FileSearchTool, CodeInterpreterTool>>
        /\ Len(call.tools) = 2
               => question_type \in {"CALCULATION_REQUIRED", "COMPARISON_REQUIRED"}
        /\ question_type \in Categories

C8_Witness ==
    /\ pc = "invoked"
    /\ question_type = "COMPARISON_REQUIRED"
    /\ Len(call.tools) = 2

\* C9: the request's max_tool_calls is fixed by its category, and the count
\* of the single-tool categories is strictly below that of the dual-tool ones.
C9_MaxToolCallsByCategory ==
    pc = "invoked" =>
        /\ question_type = "DOCUMENT_SEARCH"
               => call.max_tool_calls = document_search_max_tool_calls
        /\ question_type = "METADATA_QUERY"
               => call.max_tool_calls = metadata_max_tool_calls
        /\ question_type \in {"CALCULATION_REQUIRED", "COMPARISON_REQUIRED"}
               => call.max_tool_calls = hybrid_max_tool_calls
        /\ document_search_max_tool_calls < hybrid_max_tool_calls
        /\ metadata_max_tool_calls < hybrid_max_tool_calls

C9_Witness ==
    /\ pc = "invoked"
    /\ question_type = "CALCULATION_REQUIRED"
    /\ call.max_tool_calls > document_search_max_tool_calls

\* C10: the instructions embed the cached text of the category:
\* METADATA_QUERY the metadata text and the question and not the returns
\* text, CALCULATION_REQUIRED and COMPARISON_REQUIRED the returns text,
\* DOCUMENT_SEARCH neither text (a text is embedded when it is loaded, that
\* is non-empty, and occurs in the instructions).
C10_InstructionsEmbedCategoryText ==
    pc = "invoked" =>
        /\ question_type = "METADATA_QUERY" =>
               /\ Contains(metadata_csv_data, call.instructions)
               /\ Contains(question, call.instructions)
               /\ csv_data # "" => ~Contains(csv_data, call.instructions)
        /\ question_type \in {"CALCULATION_REQUIRED", "COMPARISON_REQUIRED"} =>
               Contains(csv_data, call.instructions)
        /\ question_type = "DOCUMENT_SEARCH" =>
               /\ csv_data # "" => ~Contains(csv_data, call.instructions)
               /\ metadata_csv_data # "" => ~Contains(metadata_csv_data, call.instructions)

C10_Witness ==
    /\ pc = "invoked"
    /\ question_type = "METADATA_QUERY"
    /\ question = "List all hedge funds"
    /\ metadata_csv_data # ""
    /\ csv_data # ""
    /\ Contains(metadata_csv_data, call.instructions)

\* C11: a category whose cached text is missing or empty (metadata text for
\* METADATA_QUERY, returns text for CALCULATION_REQUIRED and
\* COMPARISON_REQUIRED) never reaches the external model: no call carrying
\* an empty-data prompt is issued.
C11_NoCallWithEmptyData ==
    pc = "invoked" =>
        /\ question_type = "METADATA_QUERY" => metadata_csv_data # ""
        /\ question_type \in {"CALCULATION_REQUIRED", "COMPARISON_REQUIRED"}
               => csv_data # ""

(***************************************************************************)
(* Properties of extract_response_content.  What the result should be is   *)
(* computed here with every missing or None attribute contributing nothing.*)
(***************************************************************************)
RECURSIVE FirstText(_)
\* The first text fragment among the parts of one item, "" when there is none.
FirstText(parts) ==
    IF Len(parts) = 0 THEN ""
    ELSE IF Head(parts).text.tag = "str" THEN Head(parts).text.value
    ELSE FirstText(Tail(parts))

RECURSIVE ConcatFirstTexts(_)
ConcatFirstTexts(items) ==
    IF Len(items) = 0 THEN ""
    ELSE FirstText(Head(items).content.items) \o ConcatFirstTexts(Tail(items))

RECURSIVE ImagePayloads(_)
\* The payloads of the outputs that carry image data, in order.
ImagePayloads(outs) ==
    IF Len(outs) = 0 THEN <<>>
    ELSE (IF Head(outs).image = "obj" /\ Head(outs).data.tag = "str"
          THEN <<Head(outs).data.value>> ELSE <<>>) \o ImagePayloads(Tail(outs))

RECURSIVE ConcatImagePayloads(_)
ConcatImagePayloads(items) ==
    IF Len(items) = 0 THEN <<>>
    ELSE ImagePayloads(Head(items).code_interpreter_outputs.items)
             \o ConcatImagePayloads(Tail(items))

ExpectedText == ConcatFirstTexts(response.output.items)
ExpectedImages == ConcatImagePayloads(response.output.items)
ExtractDone == extracted.status # "none"

\* C13: the extracted text is the concatenation, in item order, of the first
\* text fragment of every item that carries text; items without text
\* contribute nothing (an empty concatenation gives the placeholder).
C13_TextIsConcatenationOfFirstFragments ==
    ExtractDone =>
        /\ extracted.status = "ok"
        /\ extracted.content =
               (IF ExpectedText = "" THEN NoResponseGenerated ELSE ExpectedText)

\* C14: the extracted images are exactly the payloads of the outputs that
\* carry image data, in item order and then output order; outputs without
\* image data contribute nothing.
C14_ImagesArePayloadsInOrder ==
    ExtractDone =>
        /\ extracted.status = "ok"
        /\ extracted.images = ExpectedImages

\* C15: a response in which no text fragment is found yields the placeholder
\* text, and for every response the returned text is present and not empty.
C15_PlaceholderWhenNoText ==
    ExtractDone =>
        /\ ExpectedText = "" =>
               (extracted.status = "ok" /\ extracted.content = NoResponseGenerated)
        /\ extracted.status = "ok" /\ extracted.content # ""

\* C16: extraction never raises because an attribute is missing or None: it
\* completes for every response.
C16_ExtractNeverRaises ==
    ExtractDone => extracted.status # "raised"

(***************************************************************************)
(* Properties of the chat window and the endpoint.                         *)
(***************************************************************************)
IsBlank(s) == \A i \in 1..Len(s) : SubSeq(s, i, i) \in Whitespace

\* C12: an empty or whitespace-only question is rejected before anything is
\* done with it: no handleSendMessage call runs for it, no user message is
\* shown for it, no POST carries it, and the step that rejects it leaves the
\* messages, the loading flag and the backend as they were.
C12_BlankQuestionRejected ==
    /\ [](/\ \A s \in sends : ~IsBlank(s.content)
          /\ \A i \in 1..Len(messages) :
                messages[i].role = "user" => ~IsBlank(messages[i].content)
          /\ (pc # "idle" /\ serving.who = "send") => ~IsBlank(question))
    /\ [][(message' # message /\ message' # "" /\ IsBlank(message'))
            => UNCHANGED <<messages, isLoading, error, processingStage, sends, nsends,
                           coreVars, endpointVars>>]_vars

C12_Witness ==
    /\ message = "  "
    /\ messages = <<>>
    /\ ~isLoading
    /\ sends = {}
    /\ nsends = 0
    /\ pc = "idle"
    /\ serving = NoOne

AnswerCount(msgs) ==
    Cardinality({i \in 1..Len(msgs) : msgs[i].role = "assistant" /\ ~msgs[i].isTyping})

IsErrorStatus(status) == status < 200 \/ status > 299

\* C17: when the external model call fails the request yields an error
\* response and no extracted answer; the chat window, on a failed
\* askQuestion, appends no assistant message, removes the typing indicator,
\* sets the error banner and stops loading.
C17_FailedCallShowsOnlyError ==
    [][/\ (pc = "invoked" /\ pc' = "idle" /\ response' = NoResponse)
            => (IsErrorStatus(reply'.status) /\ extracted' = NotExtracted)
       /\ \A s \in sends :
            (/\ s.pc \in {"replied", "failed"}
             /\ ~askQuestion(s).ok
             /\ sends' = sends \ {s})
            => /\ AnswerCount(messages') <= AnswerCount(messages)
               /\ \A i \in 1..Len(messages') :
                     \E j \in 1..Len(messages) : messages[j] = messages'[i]
               /\ \A i \in 1..Len(messages') :
                     ~messages'[i].isTyping /\ messages'[i].id # s.typingId
               /\ error' # NoError
               /\ ~isLoading'
       /\ \A s \in sends' :
            (s.pc = "replied" /\ IsErrorStatus(s.reply.status)) => ~askQuestion(s).ok
      ]_vars

C17_Witness ==
    /\ response = NoResponse
    /\ creates = 1
    /\ error = UpstreamErrorReply.body.error
    /\ Len(messages) = 1
    /\ messages[1].role = "user"
    /\ ~isLoading
    /\ sends = {}

StepOrder ==
    { <<"idle", "received">>, <<"received", "classified">>,
      <<"classified", "invoked">>, <<"invoked", "idle">> }

ErrorKind(r) ==
    IF ~IsErrorStatus(r.status) THEN "Answer"
    ELSE IF r.status = 400 THEN "ValidationError"
    ELSE IF r.body.error = "Assistant not configured" THEN "ConfigurationError"
    ELSE "UpstreamError"

StructuredError(r) ==
    /\ IsErrorStatus(r.status)
    /\ DOMAIN r.body = {"error", "detail"}
    /\ r.body.error # ""

StructuredAnswer(r) ==
    /\ r.status = 200
    /\ DOMAIN r.body = {"answer", "images"}

ExpectedInstructions(t, q) ==
    IF t = "DOCUMENT_SEARCH" THEN get_document_search_instructions
    ELSE IF t = "METADATA_QUERY" THEN metadata_instructions(metadata_csv_data, q)
    ELSE enhanced_instructions(csv_data)

ExpectedTools(t) ==
    IF t = "DOCUMENT_SEARCH" THEN document_search_tools
    ELSE IF t = "METADATA_QUERY" THEN metadata_tools
    ELSE hybrid_tools

OwnQuestionOnly(r) ==
    /\ r.pc \in {"classified", "invoked"} =>
          r.question_type = classify_question(r.question)
    /\ r.pc = "invoked" =>
          /\ r.call.input = r.question
          /\ r.call.instructions = ExpectedInstructions(r.question_type, r.question)
          /\ r.call.tools = ExpectedTools(r.question_type)

\* C19: no step of a request writes the cached returns or metadata text,
\* and whatever the other requests are doing, a request's category,
\* instructions and tools are those of its own question and the cached text.
C19_RequestsShareOnlyCachedText ==
    /\ [](\A i \in RequestIds : OwnQuestionOnly(reqs[i]))
    /\ [][csv_data' = csv_data /\ metadata_csv_data' = metadata_csv_data]_vars

\* Two requests of different categories are both past their invocation.
C19_Witness ==
    /\ reqs[1].pc = "invoked"
    /\ reqs[2].pc = "invoked"
    /\ reqs[1].question_type = "METADATA_QUERY"
    /\ reqs[2].question_type = "CALCULATION_REQUIRED"
    /\ metadata_csv_data # ""
    /\ csv_data # ""

(***************************************************************************)
(* Properties of the API client.                                           *)
(***************************************************************************)
AskDone == askResult # NoResult
HealthDone == healthResult # NoResult

ResponseImages(body) ==
    IF "images" \in DOMAIN body /\ body.images.tag = "list"
    THEN body.images.items
    ELSE <<>>

\* C21: askQuestion ends in one of two ways.  For an OK response with a
\* JSON body it returns an object of answer and images, where images is
\* the response's images sequence, or the empty sequence when the response
\* has none; in every other case it throws an error of message, status and
\* detail.  No returned object lacks images.
C21_AnswerWithImagesOrError ==
    AskDone =>
        IF ~fetched.failed /\ ResponseOk(fetched.status) /\ IsJsonObject(fetched.body)
        THEN /\ askResult.ok
             /\ DOMAIN askResult = {"ok", "answer", "images"}
             /\ askResult.images = ResponseImages(fetched.body)
             /\ askResult.images \in Seq({"img1", "img2"})
        ELSE /\ ~askResult.ok
             /\ DOMAIN askResult = {"ok", "message", "status", "detail"}
             /\ askResult.message # ""

\* An OK response without an images field was turned into empty images.
C21_Witness ==
    /\ AskDone
    /\ ~fetched.failed
    /\ fetched.status = 200
    /\ fetched.body = [answer |-> "A"]
    /\ askResult = AnswerResult("A", <<>>)

\* C25: for every response with a non-OK status askQuestion throws an
\* ApiError with that status, and status 0 stands for a fetch that failed
\* at the network level only, so the banner text for a response that was
\* received is never the unable-to-connect text.
C25_StatusZeroOnlyForNetworkFailure ==
    AskDone =>
        /\ (~fetched.failed /\ ~ResponseOk(fetched.status)) =>
               (~askResult.ok /\ askResult.status = fetched.status)
        /\ (~askResult.ok /\ askResult.status = 0) => fetched.failed
        /\ (~askResult.ok /\ ErrorBanner(askResult) = ConnectErrorMessage) =>
               fetched.failed

HealthyBodies ==
    { b \in Bodies :
        /\ DOMAIN b = {"status", "files_configured"}
        /\ b.status = "healthy"
        /\ b.files_configured = Bool(TRUE) }

\* C30: checkHealth never throws; it returns true exactly for an OK
\* response whose body says status 'healthy' and files_configured true,
\* and false for a non-OK response, any other body, a body that does not
\* parse and a failed fetch.
C30_CheckHealthTotal ==
    HealthDone =>
        /\ ~healthResult.threw
        /\ healthResult.value =
              (/\ ~fetched.failed
               /\ ResponseOk(fetched.status)
               /\ fetched.body \in HealthyBodies)

C30_Witness ==
    /\ HealthDone
    /\ healthResult = Value(TRUE)
    /\ fetched.status = 200

(***************************************************************************)
(* Keywords inside longer words.                                           *)
(***************************************************************************)
RECURSIVE Replace(_, _, _)
Replace(s, old, new) ==
    IF Len(s) < Len(old) THEN s
    ELSE IF SubSeq(s, 1, Len(old)) = old
    THEN new \o Replace(SubSeq(s, Len(old) + 1, Len(s)), old, new)
    ELSE SubSeq(s, 1, 1) \o Replace(SubSeq(s, 2, Len(s)), old, new)

\* The question with the keyword of each longer word written as a word.
KeywordsAsWords(q) == Replace(Replace(q, "revolve", " vol "), "stylist", " list ")

\* C29: a keyword that occurs only inside a longer word ("vol" in
\* "revolve", "list" in "stylist") counts like the keyword written as a
\* separate word: the question gets the category of the question in which
\* the longer word is replaced by the keyword standing alone.
C29_KeywordInsideWordCounts ==
    Classified => question_type = classify_question(KeywordsAsWords(question))

C29_Witness ==
    /\ Classified
    /\ question = "stylist"
    /\ KeywordsAsWords(question) = " list "
    /\ question_type = "METADATA_QUERY"

(***************************************************************************)
(* Properties of the chat window's message list and flags.                 *)
(***************************************************************************)
Settled(s) == s.pc \in {"replied", "failed"}

HasTyping(msgs) == \E i \in 1..Len(msgs) : msgs[i].isTyping

\* C22: while a send is running its question is in the list, followed by
\* its typing indicator, and the input is disabled; once the backend call
\* has settled, with an answer or an error, the typing indicator eventually
\* leaves the list and isLoading is false again.
C22_LoadingEndsAfterSettle ==
    /\ [](\A s \in sends :
            /\ isLoading /\ disabled
            /\ \E i \in 1..(Len(messages) - 1) :
                  /\ messages[i].role = "user"
                  /\ messages[i].content = s.content
                  /\ messages[i + 1].isTyping
                  /\ messages[i + 1].id = s.typingId)
    /\ (\E s \in sends : Settled(s)) ~> (sends = {} /\ ~isLoading /\ ~HasTyping(messages))

C22_Witness ==
    /\ nsends = 1
    /\ sends = {}
    /\ ~isLoading
    /\ Len(messages) = 1
    /\ error = ConnectErrorMessage

\* The stage shown for the request in progress: that of the last message
\* when it is the typing indicator or the answer.
ShownStage(msgs) ==
    IF msgs # <<>> /\ msgs[Len(msgs)].role = "assistant"
    THEN msgs[Len(msgs)].processingStage
    ELSE ""

StageOrder ==
    { <<"", "searching">>, <<"complete", "searching">>,
      <<"searching", "calculating">>, <<"searching", "analyzing">>,
      <<"calculating", "analyzing">>, <<"analyzing", "complete">>,
      <<"searching", "">>, <<"calculating", "">>, <<"analyzing", "">> }

\* C23: the stage of a request goes from searching to calculating (when
\* needed), to analyzing, to complete, never backwards and never from
\* searching to complete at once.
C23_StagesInOrder ==
    [][ShownStage(messages') # ShownStage(messages) =>
          <<ShownStage(messages), ShownStage(messages')>> \in StageOrder]_vars

\* C24: at most one send is running, isLoading holds while it runs, and a
\* new send starts only when none is running.
C24_OneRequestInFlight ==
    /\ [](Cardinality(sends) <= 1 /\ (sends # {} => isLoading))
    /\ [][nsends' # nsends => (sends = {} /\ ~isLoading)]_vars

\* The second question is in flight after the first one settled.
C24_Witness ==
    /\ nsends = 2
    /\ isLoading
    /\ \E s \in sends : s.id = 2 /\ s.pc = "sent"
    /\ Cardinality(sends) = 1

\* C26: the ids of the messages in the list are pairwise distinct.
C26_MessageIdsDistinct ==
    \A i, j \in 1..Len(messages) : i # j => messages[i].id # messages[j].id

IsReal(m) == ~m.isTyping
RealMessages(msgs) == SelectSeq(msgs, IsReal)
IsPrefix(a, b) == Len(a) <= Len(b) /\ SubSeq(b, 1, Len(a)) = a

\* C27: user messages and answers are never removed or reordered; a send
\* that succeeds adds exactly one answer after them and a send that fails
\* adds none.
C27_RealMessagesAppendOnly ==
    [][/\ IsPrefix(RealMessages(messages), RealMessages(messages'))
       /\ \A s \in sends :
            (Settled(s) /\ sends' = sends \ {s}) =>
               /\ Len(RealMessages(messages')) =
                     Len(RealMessages(messages)) + (IF askQuestion(s).ok THEN 1 ELSE 0)
               /\ askQuestion(s).ok =>
                     /\ messages'[Len(messages')].role = "assistant"
                     /\ messages'[Len(messages')].content = askQuestion(s).answer
      ]_vars

====
